---- MODULE Spec2Model ----
(***************************************************************************)
(* Model of the TcEx Inputs module (src/tcex/tcex/inputs/inputs.py): the   *)
(* layered configuration store that merges CLI arguments, a results file,  *)
(* AOT (blocking queue) params and secure (remote) params into one arg     *)
(* namespace, coerces their types and resolves playbook variables.         *)
(*                                                                         *)
(* Python values are tagged records [k |-> kind, v |-> payload] so that    *)
(* strings, booleans, None, lists and dicts can live in one namespace.     *)
(* Strings are TLA+ strings; formatting is string concatenation and        *)
(* parsing is its inverse over the finite universe of strings in use.      *)
(***************************************************************************)
EXTENDS Integers, Sequences, FiniteSets, TLC

(***************************************************************************)
(* Bounds                                                                  *)
(***************************************************************************)
\* number of public method calls (args, resolved_args, config) after __init__
MaxCalls == 3
\* longest list a delimited string is split into
MaxParts == 3

\* constructions of an Inputs object in one working directory
MaxInits == 2

(***************************************************************************)
(* Python values                                                           *)
(***************************************************************************)
S(s) == [k |-> "str", v |-> s]
B(b) == [k |-> "bool", v |-> b]
L(l) == [k |-> "list", v |-> l]
D(d) == [k |-> "dict", v |-> d]
None == [k |-> "none", v |-> 0]

IsStr(x) == x.k = "str"
IsDict(x) == x.k = "dict"

\* truth value of a Python object, as used by "if x:" and "x or y"
Truthy(x) ==
    CASE x.k = "bool" -> x.v
      [] x.k = "none" -> FALSE
      [] x.k = "str" -> x.v # ""
      [] x.k = "list" -> x.v # <<>>
      [] OTHER -> TRUE

Range(seq) == {seq[i] : i \in 1..Len(seq)}

\* dict.update(): keys of g are added to or overwritten in f
DictUpdate(f, g) ==
    [x \in (DOMAIN f) \cup (DOMAIN g) |-> IF x \in DOMAIN g THEN g[x] ELSE f[x]]

\* del d[key] for every key in ks
DictRemove(f, ks) == [x \in (DOMAIN f) \ ks |-> f[x]]

EmptyDict == [x \in {} |-> None]

(***************************************************************************)
(* str.lower() and str(value) over the strings in use                      *)
(***************************************************************************)
Lower(s) ==
    CASE s \in {"True", "TRUE", "true"} -> "true"
      [] s \in {"False", "FALSE", "false"} -> "false"
      [] s \in {"MultiChoice", "MULTICHOICE", "multichoice"} -> "multichoice"
      [] s \in {"Boolean", "BOOLEAN", "boolean"} -> "boolean"
      [] s \in {"String", "string"} -> "string"
      [] s = "No" -> "no"
      [] OTHER -> s

\* str(value) for the kinds of value to_bool is given
PyStr(x) ==
    CASE x.k = "str" -> x.v
      [] x.k = "bool" -> (IF x.v THEN "True" ELSE "False")
      [] x.k = "none" -> "None"
      [] OTHER -> "<object>"

(***************************************************************************)
(* Type coercion of AOT and secure params (Inputs.update_params)           *)
(***************************************************************************)
\* strings that contain no list delimiter: the pieces value.split() can return
Atoms == {"", "a", "b", "c", "true", "false", "TRUE", "no"}

\* tcex.ij.list_delimiter
list_delimiter == ","

RECURSIVE Join(_, _)
\* delimiter.join(parts)
Join(parts, delim) ==
    IF Len(parts) = 0 THEN ""
    ELSE IF Len(parts) = 1 THEN parts[1]
    ELSE parts[1] \o delim \o Join(Tail(parts), delim)

\* value.split(delim): the delimiter-free pieces whose join is the value
Split(atoms, s, delim) ==
    CHOOSE parts \in UNION {[1..n -> atoms] : n \in 1..MaxParts} : Join(parts, delim) = s

\* tcex.utils.to_bool: "true" in any letter case is True, everything else False
ToBool(x) == B(Lower(PyStr(x)) = "true")

\* Inputs.tc_bool_args
tc_bool_args ==
    {"apply_proxy_external", "apply_proxy_ext", "apply_proxy_tc", "batch_halt_on_error",
     "tc_aot_enabled", "tc_log_to_api", "tc_proxy_external", "tc_proxy_tc",
     "tc_secure_params", "tc_verify"}

\* an exception raised instead of a value
Err(name) == [k |-> "error", v |-> name]
IsErr(x) == x.k = "error"

\* self.tcex.ij.params_dict.get(arg) or {}
ParamData(params_dict, arg) ==
    IF arg \in DOMAIN params_dict THEN params_dict[arg] ELSE EmptyDict

\* param_data.get('type', '').lower()
ParamType(param_data) ==
    IF "type" \in DOMAIN param_data THEN Lower(param_data["type"].v) ELSE ""

\* self.tcex.utils.to_bool(param_data.get('allowMultiple', False))
ParamAllowMultiple(param_data) ==
    IF "allowMultiple" \in DOMAIN param_data
    THEN ToBool(param_data["allowMultiple"]).v
    ELSE ToBool(B(FALSE)).v

\* update_params without the branch for the reserved boolean keys
UpdateParam_NoReservedBool(params_dict, arg, value) ==
    LET param_data == ParamData(params_dict, arg)
        param_type == ParamType(param_data)
        param_allow_multiple == ParamAllowMultiple(param_data)
    IN  IF param_type = "multichoice" \/ param_allow_multiple
        THEN IF ~IsDict(value)
             THEN IF IsStr(value)
                  THEN L(Split(Atoms, value.v, list_delimiter))
                  ELSE Err("AttributeError")
             ELSE value
        ELSE IF param_type = "boolean"
        THEN ToBool(value)
        ELSE value

\* update_params with the boolean branches tested before the MultiChoice branch
UpdateParam_BoolFirst(params_dict, arg, value) ==
    LET param_data == ParamData(params_dict, arg)
        param_type == ParamType(param_data)
        param_allow_multiple == ParamAllowMultiple(param_data)
    IN  IF param_type = "boolean" \/ arg \in tc_bool_args
        THEN ToBool(value)
        ELSE IF param_type = "multichoice" \/ param_allow_multiple
        THEN IF IsStr(value) THEN L(Split(Atoms, value.v, list_delimiter))
             ELSE IF IsDict(value) THEN value
             ELSE Err("AttributeError")
        ELSE value

\* the body of the loop of update_params for one (arg, value)
UpdateParam(params_dict, arg, value) ==
    LET param_data == ParamData(params_dict, arg)
        param_type == ParamType(param_data)
        param_allow_multiple == ParamAllowMultiple(param_data)
    IN  IF param_type = "multichoice" \/ param_allow_multiple
        THEN IF ~IsDict(value)
             THEN IF IsStr(value)
                  THEN L(Split(Atoms, value.v, list_delimiter))
                  ELSE Err("AttributeError")
             ELSE value
        ELSE IF param_type = "boolean"
        THEN ToBool(value)
        ELSE IF arg \in tc_bool_args
        THEN ToBool(value)
        ELSE value

\* update_params that returns the params as they came
UpdateParams_Identity(params_dict, params) == D(params)

\* update_params(params): the coerced dict, or the first exception raised
UpdateParams(params_dict, params) ==
    LET out == [a \in DOMAIN params |-> UpdateParam(params_dict, a, params[a])]
    IN  IF \E a \in DOMAIN params : IsErr(out[a])
        THEN Err("AttributeError")
        ELSE D(out)

(***************************************************************************)
(* Command line parsing (TcArgumentParser.parse_known_args)                *)
(***************************************************************************)
\* the flags the parser declares: action and default of each
parser_actions ==
    [owner               |-> [action |-> "store", default |-> None],
     tags                |-> [action |-> "store", default |-> None],
     tc_token            |-> [action |-> "store", default |-> None],
     tc_token_expires    |-> [action |-> "store", default |-> None],
     tc_aot_enabled      |-> [action |-> "store_true", default |-> B(FALSE)],
     tc_secure_params    |-> [action |-> "store_true", default |-> B(FALSE)],
     tc_svc_client_topic |-> [action |-> "store", default |-> None],
     tc_log_level        |-> [action |-> "store", default |-> None],
     logging             |-> [action |-> "store", default |-> S("info")]]

\* flags seen on command lines that no parser action declares
UnknownFlags == {"bogus"}

\* words of a command line that are values, not options
ArgValues == {"Acme", "T1", "E1", "svc-client-x1", "svc-x1"}

\* every string of a command line that begins with "--"
OptionStrings ==
    {"--" \o f : f \in (DOMAIN parser_actions) \cup UnknownFlags}
    \cup {"--" \o f \o "=" \o w : f \in (DOMAIN parser_actions) \cup UnknownFlags, w \in ArgValues}

IsOptionString(e) == e \in OptionStrings

\* setattr(namespace, key, value)
SetAttr(ns, key, value) == DictUpdate(ns, (key :> value))

\* defaults are set only for the attributes the namespace does not have yet
WithDefaults(ns) ==
    [x \in (DOMAIN ns) \cup (DOMAIN parser_actions) |->
        IF x \in DOMAIN ns THEN ns[x] ELSE parser_actions[x].default]

RECURSIVE ParseArgv(_, _, _)
\* consume av[i..]: declared options are stored, everything else is collected
ParseArgv(av, i, acc) ==
    IF acc.err \/ i > Len(av) THEN acc
    ELSE
      LET e == av[i]
          plain == {f \in DOMAIN parser_actions : e = "--" \o f}
          explicit == {fw \in (DOMAIN parser_actions) \X ArgValues :
                          e = "--" \o fw[1] \o "=" \o fw[2]}
      IN  IF plain # {}
          THEN LET f == CHOOSE f \in plain : TRUE
               IN  IF parser_actions[f].action = "store_true"
                   THEN ParseArgv(av, i + 1, [acc EXCEPT !.ns = SetAttr(@, f, B(TRUE))])
                   ELSE IF i + 1 <= Len(av) /\ ~IsOptionString(av[i + 1])
                   THEN ParseArgv(av, i + 2, [acc EXCEPT !.ns = SetAttr(@, f, S(av[i + 1]))])
                   ELSE [acc EXCEPT !.err = TRUE]
          ELSE IF explicit # {}
          THEN LET fw == CHOOSE fw \in explicit : TRUE
               IN  IF parser_actions[fw[1]].action = "store_true"
                   THEN [acc EXCEPT !.err = TRUE]
                   ELSE ParseArgv(av, i + 1, [acc EXCEPT !.ns = SetAttr(@, fw[1], S(fw[2]))])
          ELSE ParseArgv(av, i + 1, [acc EXCEPT !.unknown = Append(@, e)])

\* parser.parse_known_args(namespace=ns) on the process's argv
ParseKnownArgs(ns, av) ==
    ParseArgv(av, 1, [ns |-> WithDefaults(ns), unknown |-> <<>>, err |-> FALSE])

(***************************************************************************)
(* Namespace operations of the Inputs class                                *)
(***************************************************************************)
\* '--{}'.format(key) in sys.argv
InArgv(av, key) == ("--" \o key) \in Range(av)

\* register_token that calls the registrar whatever the token is
RegisterToken_Always(ns, reg) ==
    Append(reg, <<"MainThread", ns["tc_token"], ns["tc_token_expires"]>>)

\* Inputs.register_token: the registrar is called only for a non-None token
RegisterToken(ns, reg) ==
    IF ns["tc_token"] # None
    THEN Append(reg, <<"MainThread", ns["tc_token"], ns["tc_token_expires"]>>)
    ELSE reg

\* config() that never drops a key: preserve has no effect
Protected_Nothing(av, d, preserve) == {}

\* keys config() deletes from the caller's dict before the update
Protected(av, d, preserve) ==
    IF preserve THEN {x \in DOMAIN d : InArgv(av, x)} ELSE {}

\* config() that works on a copy of the caller's dict
Config_OnCopy(ns, reg, av, config_data, preserve) ==
    IF IsDict(config_data)
    THEN LET kept == DictRemove(config_data.v, Protected(av, config_data.v, preserve))
             merged == DictUpdate(ns, kept)
         IN  [ns |-> merged, reg |-> RegisterToken(merged, reg), data |-> config_data]
    ELSE [ns |-> ns, reg |-> reg, data |-> config_data]

\* Inputs.config(config_data, preserve): namespace, registrar calls and the
\* caller's object after the call
Config(ns, reg, av, config_data, preserve) ==
    IF IsDict(config_data)
    THEN LET kept == DictRemove(config_data.v, Protected(av, config_data.v, preserve))
             merged == DictUpdate(ns, kept)
         IN  [ns |-> merged, reg |-> RegisterToken(merged, reg), data |-> D(kept)]
    ELSE [ns |-> ns, reg |-> reg, data |-> config_data]

(***************************************************************************)
(* Results file of a previous run (Inputs._results_tc_args)                *)
(***************************************************************************)
ResultKeys == {"owner", "tc_secure_params", "tags"}
ResultWords == {"Beta", "true", "false", ""}

\* line.split(' = ') of a line that contains ' = '
ResultPairs(line) ==
    {kw \in ResultKeys \X ResultWords : line = kw[1] \o " = " \o kw[2]}

\* 'true' / 'false' / '' become True / False / None
ResultValue(w) ==
    IF w = "true" THEN B(TRUE)
    ELSE IF w = "false" THEN B(FALSE)
    ELSE IF w = "" THEN None
    ELSE S(w)

RECURSIVE ApplyResults(_, _)
\* the for loop over the lines of results.tc
ApplyResults(ns, lines) ==
    IF lines = <<>> THEN ns
    ELSE LET line == Head(lines)
             pairs == ResultPairs(line)
         IN  IF pairs = {}
             THEN ApplyResults(ns, Tail(lines))
             ELSE LET kw == CHOOSE kw \in pairs : TRUE
                  IN  ApplyResults(SetAttr(ns, kw[1], ResultValue(kw[2])), Tail(lines))

(***************************************************************************)
(* Secure params from the API (Inputs._get_secure_params)                  *)
(***************************************************************************)
\* 'Error retrieving secure params from API ({}).'.format(err)
SecureParamsError(r) ==
    "Error retrieving secure params from API (" \o
        (IF r.text # "" THEN r.text ELSE r.reason) \o ")."

\* r.json()['inputs'] raises for a body that is not JSON, not a dict, or has no 'inputs'
HasInputs(r) == r.json.k = "dict" /\ "inputs" \in DOMAIN r.json.v

\* _get_secure_params without the status check: only the body decides
GetSecureParams_NoOkCheck(r) ==
    IF ~HasInputs(r) THEN Err(SecureParamsError(r)) ELSE r.json.v["inputs"]

\* the params returned, or the RuntimeError raised
GetSecureParams(r) ==
    IF ~r.ok THEN Err(SecureParamsError(r))
    ELSE IF ~HasInputs(r) THEN Err(SecureParamsError(r))
    ELSE r.json.v["inputs"]

(***************************************************************************)
(* Inputs of the model: command lines, files, payloads and responses       *)
(***************************************************************************)
\* sys.argv[1:] of the process
ArgvChoices ==
    {<<>>,
     <<"--owner=Acme">>,
     <<"--owner", "Acme">>,
     <<"--owner=Acme", "--tc_secure_params">>,
     <<"--owner", "Acme", "--tc_secure_params", "--tc_aot_enabled">>,
     <<"--tc_token", "T1", "--tc_token_expires", "E1", "--tc_secure_params", "--bogus">>,
     <<"--tc_aot_enabled", "--tc_svc_client_topic", "svc-client-x1">>,
     <<"--tc_svc_client_topic=svc-x1", "--bogus">>,
     <<"--owner">>}

\* the config dict given to the constructor
ConfigChoices ==
    {EmptyDict,
     [tc_secure_params |-> B(TRUE)],
     [tc_aot_enabled |-> B(TRUE), tc_token |-> S("T1"), tc_token_expires |-> S("E1")]}

\* the config_file argument: no filename, a missing file, a JSON file, a malformed file
NoConfigFile == [given |-> FALSE, isfile |-> FALSE, json |-> None]
ConfigFileChoices ==
    {NoConfigFile,
     [given |-> TRUE, isfile |-> FALSE, json |-> None],
     [given |-> TRUE, isfile |-> TRUE, json |-> D([owner |-> S("Gamma")])],
     [given |-> TRUE, isfile |-> TRUE, json |-> Err("ValueError")]}

\* results.tc left by a previous run
NoResultFile == [exists |-> FALSE, lines |-> <<>>]
ResultFileChoices ==
    {NoResultFile,
     [exists |-> TRUE, lines |-> <<"owner = Beta", "garbage">>],
     [exists |-> TRUE, lines |-> <<"tc_secure_params = true", "tags = ", "">>]}

\* what playbook.aot_blpop() can return
AotPayloads ==
    {D([owner |-> S("Beta")]),
     D([owner |-> S("Gamma"), tags |-> S("a,b,c"), tc_secure_params |-> S("true")]),
     D([tc_token |-> S("T2"), tc_token_expires |-> S("E2"), debug_mode |-> S("TRUE"),
        tc_secure_params |-> S("false")])}

\* what session.get('/internal/job/execution/parameters') can return
NoResponse == [ok |-> TRUE, reason |-> "", text |-> "", json |-> None]
Responses ==
    {[ok |-> TRUE, reason |-> "OK", text |-> "{\"inputs\": {\"owner\": \"Beta\"}}",
      json |-> D([inputs |-> D([owner |-> S("Beta")])])],
     [ok |-> TRUE, reason |-> "OK",
      text |-> "{\"inputs\": {\"owner\": \"Beta\", \"tags\": \"a,b\", \"tc_token\": \"T2\", \"debug_mode\": \"no\"}}",
      json |-> D([inputs |-> D([owner |-> S("Beta"), tags |-> S("a,b"),
                                tc_token |-> S("T2"), debug_mode |-> S("no")])])],
     [ok |-> TRUE, reason |-> "OK", text |-> "{\"inputs\": {\"tags\": [\"a\", \"b\"]}}",
      json |-> D([inputs |-> D([tags |-> L(<<"a", "b">>)])])],
     [ok |-> FALSE, reason |-> "Internal Server Error", text |-> "boom", json |-> Err("ValueError")],
     [ok |-> FALSE, reason |-> "Internal Server Error", text |-> "", json |-> Err("ValueError")],
     [ok |-> FALSE, reason |-> "Forbidden", text |-> "{\"inputs\": {\"owner\": \"Beta\"}}",
      json |-> D([inputs |-> D([owner |-> S("Beta")])])],
     [ok |-> TRUE, reason |-> "OK", text |-> "<html>", json |-> Err("ValueError")],
     [ok |-> TRUE, reason |-> "OK", text |-> "", json |-> Err("ValueError")],
     [ok |-> TRUE, reason |-> "OK", text |-> "{}", json |-> D(EmptyDict)],
     [ok |-> TRUE, reason |-> "OK", text |-> "[]", json |-> L(<<>>)]}

\* arguments an App passes to config()
ConfigCallArgs ==
    {D([owner |-> S("Gamma"), tc_token |-> S("T2")]),
     D([tc_token |-> None, debug_mode |-> B(TRUE)]),
     D([owner |-> S("$env.API_KEY"), tags |-> S("#App:1:owner!String"),
        tc_log_file |-> S("#App:1:owner!String")]),
     S("notadict")}

\* tcex.ij.params_dict: the parameter specs of install.json
ij_params_dict ==
    [tags       |-> [type |-> S("MultiChoice")],
     debug_mode |-> [type |-> S("Boolean")]]

(***************************************************************************)
(* Playbook variable resolution used by resolved_args                      *)
(***************************************************************************)
\* Inputs.tc_reserved_args
tc_reserved_args ==
    {"tc_token", "tc_token_expires", "api_access_id", "api_secret_key", "batch_action",
     "batch_chunk", "batch_halt_on_error", "batch_poll_interval", "batch_interval_max",
     "batch_write_type", "tc_playbook_db_type", "tc_playbook_db_context",
     "tc_playbook_db_path", "tc_playbook_db_port", "tc_playbook_out_variables",
     "api_default_org", "tc_api_path", "tc_in_path", "tc_log_file", "tc_log_path",
     "tc_out_path", "tc_secure_params", "tc_temp_path", "tc_user_id", "tc_proxy_host",
     "tc_proxy_port", "tc_proxy_username", "tc_proxy_password", "tc_proxy_external",
     "tc_proxy_tc", "tc_log_to_api", "tc_log_level", "logging"}

\* the key/value broker: playbook variables and their stored values
kv_store == [x \in {"#App:1:owner!String"} |-> S("Delta")]

\* playbook.read(value): the stored value of a variable, any other string unchanged
PlaybookRead(s) == IF s \in DOMAIN kv_store THEN kv_store[s] ELSE S(s)

\* os.environ of the process
os_environ == [x \in {"API_KEY"} |-> "xyz"]

\* names an environment reference can carry after "$env." or "$envs."
EnvKeys == {"", "API_KEY", "MISSING", "API.KEY"}

\* a match of ^\$env\.(.*)$ alone
EnvKeyOf_EnvOnly(value) == {key \in EnvKeys : value = "$env." \o key}

\* the group of ^\$env\.(.*)$ or ^\$envs\.(.*)$ in value, {} when neither matches
EnvKeyOf(value) ==
    {key \in EnvKeys : value = "$env." \o key \/ value = "$envs." \o key}

\* TestCase.resolve_env_args(value): os.getenv(env_key, value) for a reference
ResolveEnvArgs(environ, value) ==
    IF EnvKeyOf(value) = {} THEN value
    ELSE LET env_key == CHOOSE key \in EnvKeyOf(value) : TRUE
         IN  IF env_key \in DOMAIN environ THEN environ[env_key] ELSE value

\* a resolution that also reads the values of the reserved keys
ReadsBroker_Reserved(x, arg_val) == IsStr(arg_val)

\* the test of the loop: the value of a key goes through playbook.read
ReadsBroker(x, arg_val) == x \notin tc_reserved_args /\ IsStr(arg_val)

\* a resolution that resolves environment references before the broker read
Resolve_WithEnv(ns) ==
    [x \in DOMAIN ns |->
        IF ReadsBroker(x, ns[x])
        THEN PlaybookRead(ResolveEnvArgs(os_environ, ns[x].v))
        ELSE ns[x]]

\* a resolution that leaves out the keys whose value is None
Resolve_SkipNone(ns) ==
    [x \in {y \in DOMAIN ns : ns[y] # None} |->
        IF ReadsBroker(x, ns[x]) THEN PlaybookRead(ns[x].v) ELSE ns[x]]

\* a resolution that keeps only what the store holds: any other string becomes None
Resolve_MissingIsNone(ns) ==
    [x \in DOMAIN ns |->
        IF ReadsBroker(x, ns[x])
        THEN IF ns[x].v \in DOMAIN kv_store THEN kv_store[ns[x].v] ELSE None
        ELSE ns[x]]

\* the loop of resolved_args over vars(self._default_args)
Resolve(ns) ==
    [x \in DOMAIN ns |->
        IF ReadsBroker(x, ns[x]) THEN PlaybookRead(ns[x].v) ELSE ns[x]]

\* how often that loop calls playbook.read for each key
ResolveReads(ns) ==
    [x \in DOMAIN ns |-> IF ReadsBroker(x, ns[x]) THEN 1 ELSE 0]

\* resolved_args() that resolves again on every call
NeedsResolve_Always(done, parse) == TRUE

\* if not self._parsed_resolved or parse
NeedsResolve(done, parse) == ~done \/ parse

(***************************************************************************)
(* State                                                                   *)
(***************************************************************************)
VARIABLES
    pc,                     \* position in Inputs.__init__: "new" .. "ready", or "failed"
    argv,                   \* sys.argv[1:]
    result_file,            \* results.tc on disk
    default_args,           \* self._default_args: the raw snapshot
    tcex_default_args,      \* TRUE when tcex._default_args references the snapshot
    unknown_args,           \* self._unknown_args
    parsed,                 \* self._parsed
    parsed_resolved,        \* self._parsed_resolved
    default_args_resolved,  \* self._default_args_resolved: the resolved snapshot
    registered,             \* calls received by tcex.token.register_token
    trace,                  \* steps Inputs.__init__ has executed
    error,                  \* the exception that left the last operation, "" if none
    calls,                  \* number of public method calls made after __init__
    remote,                 \* the response __init__ got from the parameter service
    inits,                  \* number of Inputs objects constructed so far
    broker,                 \* TRUE when the AOT queue holds a payload for aot_blpop
    coerce,                 \* a coercion under test: key, spec, value and its results
    fn,                     \* a pure function under test: its input and its result
    lastOp                  \* the last operation and what it was given

vars == <<pc, argv, result_file, default_args, tcex_default_args, unknown_args, parsed,
          parsed_resolved, default_args_resolved, registered, trace, error, calls, remote,
          inits, broker, coerce, fn, lastOp>>

\* no coercion under test
NoCoerce == [stage |-> 0, key |-> "", spec |-> EmptyDict, value |-> None, once |-> None,
             twice |-> None]

\* no pure function under test
NoFn == [stage |-> 0, name |-> "", value |-> "", environ |-> [x \in {} |-> ""],
         isNone |-> FALSE, variable |-> <<>>,
         parts |-> [prefix |-> <<>>, namespace |-> <<>>, id |-> <<>>, name |-> <<>>,
                    type |-> <<>>, suffix |-> <<>>],
         out |-> None,
         parts2 |-> [prefix |-> <<>>, namespace |-> <<>>, id |-> <<>>, name |-> <<>>,
                     type |-> <<>>, suffix |-> <<>>],
         variable2 |-> <<>>, out2 |-> None]

\* no call of playbook.read
NoReads == [x \in {} |-> 0]

BaseOp ==
    [name |-> "none", arg |-> None, data |-> None, preserve |-> FALSE, parse |-> FALSE,
     ran |-> FALSE, merged |-> FALSE, steps |-> <<>>, warnings |-> 0, reads |-> NoReads]

Init ==
    /\ pc = "new"
    /\ argv \in ArgvChoices
    /\ result_file \in ResultFileChoices
    /\ default_args = EmptyDict
    /\ tcex_default_args = FALSE
    /\ unknown_args = <<>>
    /\ parsed = FALSE
    /\ parsed_resolved = FALSE
    /\ default_args_resolved = EmptyDict
    /\ registered = <<>>
    /\ trace = <<>>
    /\ error = ""
    /\ calls = 0
    /\ remote = NoResponse
    /\ inits = 1
    /\ broker = FALSE
    /\ coerce = NoCoerce
    /\ fn = NoFn
    /\ lastOp = BaseOp

(***************************************************************************)
(* Inputs.__init__, one action per step                                    *)
(***************************************************************************)
\* __init__ that registers the token only after the loaders have run
After_TokenLast(step) ==
    CASE step = "new" -> "results"
      [] step = "results" -> "aot"
      [] step = "aot" -> "secure"
      [] step = "secure" -> "token"
      [] step = "token" -> "logging"
      [] step = "logging" -> "ready"

\* __init__ that loads secure params before the AOT params
After_SecureFirst(step) ==
    CASE step = "new" -> "results"
      [] step = "results" -> "token"
      [] step = "token" -> "secure"
      [] step = "secure" -> "aot"
      [] step = "aot" -> "logging"
      [] step = "logging" -> "ready"

\* the order of the steps of __init__
After(step) ==
    CASE step = "new" -> "results"
      [] step = "results" -> "token"
      [] step = "token" -> "aot"
      [] step = "aot" -> "secure"
      [] step = "secure" -> "logging"
      [] step = "logging" -> "ready"

\* Inputs.config_file(filename): the file's JSON, {} when there is none
ConfigFile(cf) ==
    IF cf.given
    THEN IF cf.isfile THEN cf.json ELSE D(EmptyDict)
    ELSE D(EmptyDict)

\* an error that is swallowed instead of raised
Abort_Swallow(msg, op) ==
    /\ pc' = "failed"
    /\ error' = ""
    /\ lastOp' = op

\* an exception leaves __init__: no Inputs object is returned
Abort(msg, op) ==
    /\ pc' = "failed"
    /\ error' = msg
    /\ lastOp' = op

\* config file, config dict and CLI parse; the namespace is handed to tcex
Construct ==
    /\ pc = "new"
    /\ \E config \in ConfigChoices, cf \in ConfigFileChoices :
         LET config_file_data == ConfigFile(cf)
             op == [BaseOp EXCEPT !.name = "construct", !.arg = config_file_data]
         IN  IF IsErr(config_file_data)
             THEN /\ Abort(config_file_data.v, op)
                  /\ UNCHANGED <<default_args, unknown_args, tcex_default_args, trace>>
             ELSE \E r \in {ParseKnownArgs(DictUpdate(config, config_file_data.v), argv)} :
                      IF r.err
                      THEN /\ Abort("SystemExit", op)
                           /\ default_args' = r.ns
                           /\ UNCHANGED <<unknown_args, tcex_default_args, trace>>
                      ELSE /\ default_args' = r.ns
                           /\ unknown_args' = r.unknown
                           /\ tcex_default_args' = TRUE
                           /\ trace' = Append(trace, "cli_parse")
                           /\ pc' = After(pc)
                           /\ lastOp' = [op EXCEPT !.ran = TRUE]
                           /\ UNCHANGED error
    /\ UNCHANGED <<argv, result_file, parsed, parsed_resolved, default_args_resolved,
                   registered, calls, remote, inits, broker>>

\* _results_tc_args that leaves results.tc in place
RemoveFile_Keep(f) == f

\* os.remove(result_file): the file is gone; lines keeps what it held
RemoveFile(f) == [f EXCEPT !.exists = FALSE]

\* self._results_tc_args(): the file is read, removed, and its lines set as attributes
ResultsTcArgs ==
    /\ pc = "results"
    /\ default_args' = IF result_file.exists
                       THEN ApplyResults(default_args, result_file.lines)
                       ELSE default_args
    /\ result_file' = (IF result_file.exists THEN RemoveFile(result_file) ELSE result_file)
    /\ trace' = Append(trace, "results_file")
    /\ pc' = After(pc)
    /\ lastOp' = [BaseOp EXCEPT !.name = "results", !.ran = result_file.exists]
    /\ UNCHANGED <<argv, tcex_default_args, unknown_args, parsed, parsed_resolved,
                   default_args_resolved, registered, error, calls, remote, inits, broker>>

\* self.register_token() of __init__
RegisterTokenStep ==
    /\ pc = "token"
    /\ registered' = RegisterToken(default_args, registered)
    /\ trace' = Append(trace, "register_token")
    /\ pc' = After(pc)
    /\ lastOp' = [BaseOp EXCEPT !.name = "register_token"]
    /\ UNCHANGED <<argv, result_file, default_args, tcex_default_args, unknown_args, parsed,
                   parsed_resolved, default_args_resolved, error, calls, remote, inits, broker>>

\* a loader that runs whatever its flag says
Enabled_Always(ns, flag) == TRUE

\* if self._default_args.tc_aot_enabled: / if self._default_args.tc_secure_params:
Enabled(ns, flag) == Truthy(ns[flag])

\* aot_blpop that gives up waiting and returns without a payload in the queue
PopReturns_Timeout(queued) == TRUE

\* self.tcex.playbook.aot_blpop() returns only when the queue holds a payload
PopReturns(queued) == queued

\* the broker receives a payload while __init__ waits in aot_blpop
BrokerPush ==
    /\ pc = "aot"
    /\ Enabled(default_args, "tc_aot_enabled")
    /\ ~broker
    /\ broker' = TRUE
    /\ UNCHANGED <<pc, argv, result_file, default_args, tcex_default_args, unknown_args,
                   parsed, parsed_resolved, default_args_resolved, registered, trace, error,
                   calls, remote, inits, lastOp>>

\* self._load_aot_params(): one blocking pop, coercion, merge
LoadAotParams ==
    /\ pc = "aot"
    /\ IF Enabled(default_args, "tc_aot_enabled")
       THEN /\ PopReturns(broker)
            /\ broker' = FALSE
            /\ \E params \in AotPayloads :
              LET updated_params == UpdateParams(ij_params_dict, params.v)
                  c == Config(default_args, registered, argv, updated_params, TRUE)
                  op == [BaseOp EXCEPT !.name = "aot", !.ran = TRUE, !.arg = updated_params,
                                       !.preserve = TRUE]
              IN  IF IsErr(updated_params)
                  THEN /\ Abort(updated_params.v, op)
                       /\ trace' = Append(trace, "aot_pop")
                       /\ UNCHANGED <<default_args, registered>>
                  ELSE /\ default_args' = c.ns
                       /\ registered' = c.reg
                       /\ trace' = trace \o <<"aot_pop", "aot_merge">>
                       /\ pc' = After(pc)
                       /\ lastOp' = [op EXCEPT !.merged = TRUE, !.data = c.data]
                       /\ UNCHANGED error
       ELSE /\ pc' = After(pc)
            /\ lastOp' = [BaseOp EXCEPT !.name = "aot"]
            /\ UNCHANGED <<default_args, registered, trace, error, broker>>
    /\ UNCHANGED <<argv, result_file, tcex_default_args, unknown_args, parsed, parsed_resolved,
                   default_args_resolved, calls, remote, inits>>

\* self._load_secure_params(): one request, coercion, merge
LoadSecureParams ==
    /\ pc = "secure"
    /\ IF Enabled(default_args, "tc_secure_params")
       THEN \E r \in Responses :
              LET params == GetSecureParams(r)
                  updated_params == IF IsErr(params) THEN params
                                    ELSE IF ~IsDict(params) THEN Err("AttributeError")
                                    ELSE UpdateParams(ij_params_dict, params.v)
                  c == Config(default_args, registered, argv, updated_params, TRUE)
                  op == [BaseOp EXCEPT !.name = "secure", !.ran = TRUE,
                                       !.arg = updated_params, !.preserve = TRUE]
              IN  /\ remote' = r
                  /\ IF IsErr(updated_params)
                     THEN /\ Abort(updated_params.v, op)
                          /\ trace' = Append(trace, "secure_request")
                          /\ UNCHANGED <<default_args, registered>>
                     ELSE /\ default_args' = c.ns
                          /\ registered' = c.reg
                          /\ trace' = trace \o <<"secure_request", "secure_merge">>
                          /\ pc' = After(pc)
                          /\ lastOp' = [op EXCEPT !.merged = TRUE, !.data = c.data]
                          /\ UNCHANGED error
       ELSE /\ pc' = After(pc)
            /\ lastOp' = [BaseOp EXCEPT !.name = "secure"]
            /\ UNCHANGED <<default_args, registered, trace, error, remote>>
    /\ UNCHANGED <<argv, result_file, tcex_default_args, unknown_args, parsed, parsed_resolved,
                   default_args_resolved, calls, inits, broker>>

\* parser.namespace = ...; self.update_logging(): tc_log_level falls back to logging
UpdateLogging ==
    /\ pc = "logging"
    /\ default_args' = IF default_args["tc_log_level"] = None
                       THEN SetAttr(default_args, "tc_log_level", default_args["logging"])
                       ELSE default_args
    /\ pc' = After(pc)
    /\ lastOp' = [BaseOp EXCEPT !.name = "update_logging"]
    /\ UNCHANGED <<argv, result_file, tcex_default_args, unknown_args, parsed, parsed_resolved,
                   default_args_resolved, registered, trace, error, calls, remote, inits, broker>>

(***************************************************************************)
(* Public methods, called by the App once the Inputs object exists         *)
(***************************************************************************)
\* the pieces of a service topic between '-'
TopicAtoms == {"svc", "client", "x1"}

\* args() that returns the namespace without parsing the command line again
ArgsRun_NoParse(ns, reg, av) ==
    [ns |-> ns, reg |-> RegisterToken(ns, reg), unknown |-> <<>>, raised |-> ""]

\* args() that parses but does not register the token
ArgsRun_NoRegister(ns, reg, av) ==
    LET r == ParseKnownArgs(ns, av)
    IN  [ns |-> r.ns, reg |-> reg, unknown |-> r.unknown,
         raised |-> IF r.err THEN "SystemExit" ELSE ""]

\* the body of args() when it parses: CLI parse, config(args.__dict__, False),
\* service_id, self._parsed = True; raised names the exception that ends it early
ArgsRun(ns, reg, av) ==
    LET r == CHOOSE x \in {ParseKnownArgs(ns, av)} : TRUE
        c == CHOOSE x \in {Config(r.ns, reg, av, D(r.ns), FALSE)} : TRUE
        topic == c.ns["tc_svc_client_topic"]
        parts == Split(TopicAtoms, topic.v, "-")
    IN  IF r.err
        THEN [ns |-> r.ns, reg |-> reg, unknown |-> r.unknown, raised |-> "SystemExit"]
        ELSE IF topic = None
        THEN [ns |-> c.ns, reg |-> c.reg, unknown |-> r.unknown, raised |-> ""]
        ELSE IF ~IsStr(topic)
        THEN [ns |-> c.ns, reg |-> c.reg, unknown |-> r.unknown, raised |-> "AttributeError"]
        ELSE IF Len(parts) < 3
        THEN [ns |-> c.ns, reg |-> c.reg, unknown |-> r.unknown, raised |-> "IndexError"]
        ELSE [ns |-> SetAttr(c.ns, "service_id", S(parts[3])), reg |-> c.reg,
              unknown |-> r.unknown, raised |-> ""]

\* args() that parses on every call
NeedsParse_Always(done, parse) == TRUE

\* if not self._parsed or parse
NeedsParse(done, parse) == ~done \/ parse

\* resolved_args that hands its parse argument on to args()
ForwardedParse_Same(parse) == parse

\* the parse argument of the self.args() call in resolved_args: the default
ForwardedParse(parse) == FALSE

\* Inputs.args(parse)
Args(parse) ==
    /\ pc = "ready"
    /\ calls < MaxCalls
    /\ calls' = calls + 1
    /\ IF NeedsParse(parsed, parse)
       THEN \E a \in {ArgsRun(default_args, registered, argv)} :
                /\ default_args' = a.ns
                /\ registered' = a.reg
                /\ unknown_args' = a.unknown
                /\ parsed' = (IF a.raised = "" THEN TRUE ELSE parsed)
                /\ error' = a.raised
                /\ lastOp' = [BaseOp EXCEPT !.name = "args", !.parse = parse, !.ran = TRUE,
                                 !.steps = <<"cli_parse", "self_merge", "register_token">>,
                                 !.warnings = IF a.raised = "" THEN Len(a.unknown) ELSE 0]
       ELSE /\ error' = ""
            /\ lastOp' = [BaseOp EXCEPT !.name = "args", !.parse = parse]
            /\ UNCHANGED <<default_args, registered, unknown_args, parsed>>
    /\ UNCHANGED <<pc, argv, result_file, tcex_default_args, parsed_resolved,
                   default_args_resolved, trace, remote, inits, broker>>

\* Inputs.resolved_args(parse)
ResolvedArgs(parse) ==
    /\ pc = "ready"
    /\ calls < MaxCalls
    /\ calls' = calls + 1
    /\ IF NeedsResolve(parsed_resolved, parse)
       THEN \E a \in {IF NeedsParse(parsed, ForwardedParse(parse))
                      THEN ArgsRun(default_args, registered, argv)
                      ELSE [ns |-> default_args, reg |-> registered,
                            unknown |-> unknown_args, raised |-> ""]} :
            LET op == [BaseOp EXCEPT !.name = "resolved_args", !.parse = parse, !.ran = TRUE,
                          !.steps = IF NeedsParse(parsed, ForwardedParse(parse))
                                    THEN <<"cli_parse", "self_merge", "register_token">>
                                    ELSE <<>>,
                          !.warnings = IF NeedsParse(parsed, ForwardedParse(parse))
                                          /\ a.raised = ""
                                       THEN Len(a.unknown) ELSE 0]
            IN  /\ default_args' = a.ns
                /\ registered' = a.reg
                /\ unknown_args' = a.unknown
                /\ error' = a.raised
                /\ IF a.raised = ""
                   THEN /\ parsed' = TRUE
                        /\ default_args_resolved' = Resolve(a.ns)
                        /\ parsed_resolved' = TRUE
                        /\ lastOp' = [op EXCEPT !.steps = Append(@, "resolve"),
                                                !.reads = ResolveReads(a.ns),
                                                !.data = D(default_args_resolved)]
                   ELSE /\ lastOp' = op
                        /\ UNCHANGED <<parsed, default_args_resolved, parsed_resolved>>
       ELSE /\ error' = ""
            /\ lastOp' = [BaseOp EXCEPT !.name = "resolved_args", !.parse = parse]
            /\ UNCHANGED <<default_args, registered, unknown_args, parsed,
                           default_args_resolved, parsed_resolved>>
    /\ UNCHANGED <<pc, argv, result_file, tcex_default_args, trace, remote, inits, broker>>

\* Inputs.config(config_data, preserve) called by the App
ConfigCall(config_data, preserve) ==
    /\ pc = "ready"
    /\ calls < MaxCalls
    /\ calls' = calls + 1
    /\ \E c \in {Config(default_args, registered, argv, config_data, preserve)} :
           /\ default_args' = c.ns
           /\ registered' = c.reg
           /\ lastOp' = [BaseOp EXCEPT !.name = "config", !.arg = config_data,
                            !.data = c.data, !.preserve = preserve, !.ran = TRUE,
                            !.merged = IsDict(config_data)]
    /\ error' = ""
    /\ UNCHANGED <<pc, argv, result_file, tcex_default_args, unknown_args, parsed,
                   parsed_resolved, default_args_resolved, trace, remote, inits, broker>>

\* a new Inputs object for the same command line in the same working directory:
\* the fields start again from their initial values, the files are as they were left
Reinit ==
    /\ pc \in {"ready", "failed"}
    /\ inits < MaxInits
    /\ inits' = inits + 1
    /\ pc' = "new"
    /\ default_args' = EmptyDict
    /\ tcex_default_args' = FALSE
    /\ unknown_args' = <<>>
    /\ parsed' = FALSE
    /\ parsed_resolved' = FALSE
    /\ default_args_resolved' = EmptyDict
    /\ registered' = <<>>
    /\ trace' = <<>>
    /\ error' = ""
    /\ calls' = 0
    /\ remote' = NoResponse
    /\ broker' = FALSE
    /\ lastOp' = [BaseOp EXCEPT !.name = "new"]
    /\ UNCHANGED <<argv, result_file>>

Next ==
    /\ UNCHANGED <<coerce, fn>>
    /\ \/ Construct
       \/ ResultsTcArgs
       \/ RegisterTokenStep
       \/ LoadAotParams
       \/ LoadSecureParams
       \/ UpdateLogging
       \/ \E parse \in BOOLEAN : Args(parse)
       \/ \E parse \in BOOLEAN : ResolvedArgs(parse)
       \/ \E config_data \in ConfigCallArgs, preserve \in BOOLEAN :
             ConfigCall(config_data, preserve)
       \/ Reinit
       \/ BrokerPush

Spec == Init /\ [][Next]_vars

(***************************************************************************)
(* __init__ alone, with the scheduling of a sequential program              *)
(***************************************************************************)
\* the steps of __init__: a step that can run does run
InitSteps ==
    /\ UNCHANGED <<coerce, fn>>
    /\ \/ Construct
       \/ ResultsTcArgs
       \/ RegisterTokenStep
       \/ LoadAotParams
       \/ LoadSecureParams
       \/ UpdateLogging

\* the broker, which owes the program nothing
BrokerSteps ==
    /\ UNCHANGED <<coerce, fn>>
    /\ BrokerPush

NextLive == InitSteps \/ BrokerSteps

SpecLive == Init /\ [][NextLive]_vars /\ WF_vars(InitSteps)

TypeOK ==
    /\ pc \in {"new", "results", "token", "aot", "secure", "logging", "ready", "failed"}
    /\ calls \in 0..MaxCalls
    /\ inits \in 1..MaxInits
    /\ broker \in BOOLEAN
    /\ parsed \in BOOLEAN
    /\ parsed_resolved \in BOOLEAN

(***************************************************************************)
(* Coercion on its own: update_params applied to one (key, value, spec),   *)
(* and applied again to its own result                                     *)
(***************************************************************************)
CoerceKeys == {"tags", "debug_mode", "tc_verify", "owner"}

\* parameter specs of install.json; EmptyDict is a key without a schema entry
CoerceSpecs ==
    {EmptyDict,
     [type |-> S("String")],
     [type |-> S("MultiChoice")],
     [type |-> S("MULTICHOICE")],
     [type |-> S("Boolean")],
     [type |-> S("boolean"), allowMultiple |-> B(FALSE)],
     [type |-> S("Boolean"), allowMultiple |-> B(TRUE)],
     [type |-> S("String"), allowMultiple |-> B(TRUE)]}

CoerceValues ==
    {S("a,b,c"), S("a"), S(""), S("true"), S("TRUE"), S("false"), S("no"),
     B(TRUE), B(FALSE), L(<<"a", "b">>), None}

\* install.json with a spec for the key, or without one
SchemaOf(key, spec) == IF spec = EmptyDict THEN EmptyDict ELSE (key :> spec)

InitCoerce ==
    /\ pc = "new"
    /\ argv = <<>>
    /\ result_file = NoResultFile
    /\ default_args = EmptyDict
    /\ tcex_default_args = FALSE
    /\ unknown_args = <<>>
    /\ parsed = FALSE
    /\ parsed_resolved = FALSE
    /\ default_args_resolved = EmptyDict
    /\ registered = <<>>
    /\ trace = <<>>
    /\ error = ""
    /\ calls = 0
    /\ remote = NoResponse
    /\ inits = 1
    /\ broker = FALSE
    /\ fn = NoFn
    /\ lastOp = BaseOp
    /\ \E key \in CoerceKeys, spec \in CoerceSpecs, value \in CoerceValues :
         coerce = [NoCoerce EXCEPT !.key = key, !.spec = spec, !.value = value]

\* update_params({key: value})
CoerceOnce ==
    /\ coerce.stage = 0
    /\ coerce' = [coerce EXCEPT !.stage = 1,
                     !.once = UpdateParam(SchemaOf(coerce.key, coerce.spec), coerce.key,
                                          coerce.value)]

\* update_params applied to the dict the first call returned
CoerceTwice ==
    /\ coerce.stage = 1
    /\ ~IsErr(coerce.once)
    /\ coerce' = [coerce EXCEPT !.stage = 2,
                     !.twice = UpdateParam(SchemaOf(coerce.key, coerce.spec), coerce.key,
                                           coerce.once)]

NextCoerce ==
    /\ UNCHANGED <<pc, argv, result_file, default_args, tcex_default_args, unknown_args,
                   parsed, parsed_resolved, default_args_resolved, registered, trace, error,
                   calls, remote, inits, broker, fn, lastOp>>
    /\ \/ CoerceOnce
       \/ CoerceTwice

SpecCoerce == InitCoerce /\ [][NextCoerce]_vars

(***************************************************************************)
(* Playbook variable strings (ValidationTemplates._method_name)            *)
(* A variable is a sequence of one-character strings                       *)
(***************************************************************************)
UpperChars ==
    <<"A", "B", "C", "D", "E", "F", "G", "H", "I", "J", "K", "L", "M",
      "N", "O", "P", "Q", "R", "S", "T", "U", "V", "W", "X", "Y", "Z">>

LowerChars ==
    <<"a", "b", "c", "d", "e", "f", "g", "h", "i", "j", "k", "l", "m",
      "n", "o", "p", "q", "r", "s", "t", "u", "v", "w", "x", "y", "z">>

DigitChars == {"0", "1", "2", "3", "4", "5", "6", "7", "8", "9"}

\* [A-Za-z]
IsLetter(c) == c \in Range(UpperChars) \cup Range(LowerChars)

\* [A-Za-z0-9_\.\-\[\]]
IsNameChar(c) == IsLetter(c) \/ c \in DigitChars \cup {"_", ".", "-", "[", "]"}

\* [A-Za-z0-9_-]
IsCustomChar(c) == IsLetter(c) \/ c \in DigitChars \cup {"_", "-"}

\* what str.strip() removes
Whitespace == {" ", "\t", "\n"}

\* str.lower() of one character
LowerChar(c) ==
    IF c \in Range(UpperChars)
    THEN LowerChars[CHOOSE i \in 1..Len(UpperChars) : UpperChars[i] = c]
    ELSE c

\* str.lower()
LowerSeq(v) == [i \in 1..Len(v) |-> LowerChar(v[i])]

\* str.replace('.', '_')
ReplaceDots(v) == [i \in 1..Len(v) |-> IF v[i] = "." THEN "_" ELSE v[i]]

\* str.strip()
Strip(v) ==
    LET kept == {i \in 1..Len(v) : v[i] \notin Whitespace}
    IN  IF kept = {} THEN <<>>
        ELSE SubSeq(v, CHOOSE i \in kept : \A j \in kept : i <= j,
                       CHOOSE i \in kept : \A j \in kept : j <= i)

RECURSIVE Concat(_)
\* the string a sequence of characters spells
Concat(v) == IF v = <<>> THEN "" ELSE Head(v) \o Concat(Tail(v))

\* the scalar types of the pattern, and the suffix of the array types
ScalarTypes ==
    {<<"S", "t", "r", "i", "n", "g">>,
     <<"B", "i", "n", "a", "r", "y">>,
     <<"K", "e", "y", "V", "a", "l", "u", "e">>,
     <<"T", "C", "E", "n", "t", "i", "t", "y">>,
     <<"T", "C", "E", "n", "h", "a", "n", "c", "e", "d", "E", "n", "t", "i", "t", "y">>}

ArraySuffix == <<"A", "r", "r", "a", "y">>

StartsWith(v, p) == Len(p) <= Len(v) /\ SubSeq(v, 1, Len(p)) = p

AllChars(v, Test(_)) == v # <<>> /\ \A i \in 1..Len(v) : Test(v[i])

\* the alternatives of group 4, which has to reach the end of the string
IsVariableType(v) ==
    \/ v \in ScalarTypes
    \/ v \in {s \o ArraySuffix : s \in ScalarTypes}
    \/ /\ AllChars(v, IsCustomChar)
       /\ \A s \in ScalarTypes : ~StartsWith(v, s)

\* the ways ^#(..):(..):(..)!(..)$ matches v: the positions of the two ':' and the '!'
VariableMatch(v) ==
    LET colons == {i \in 1..Len(v) : v[i] = ":"}
        bangs == {i \in 1..Len(v) : v[i] = "!"}
    IN  {m \in colons \X colons \X bangs :
            /\ v[1] = "#"
            /\ m[1] < m[2] /\ m[2] < m[3]
            /\ AllChars(SubSeq(v, 2, m[1] - 1), IsLetter)
            /\ AllChars(SubSeq(v, m[1] + 1, m[2] - 1), LAMBDA c : c \in DigitChars)
            /\ AllChars(SubSeq(v, m[2] + 1, m[3] - 1), IsNameChar)
            /\ IsVariableType(SubSeq(v, m[3] + 1, Len(v)))}

\* _method_name that keeps the letter case of the name and of the type
MethodName_KeepCase(isNone, variable) ==
    IF isNone THEN None
    ELSE LET stripped == Strip(variable)
         IN  IF VariableMatch(stripped) = {} THEN None
             ELSE LET m == CHOOSE m \in VariableMatch(stripped) : TRUE
                      variable_name == ReplaceDots(SubSeq(stripped, m[2] + 1, m[3] - 1))
                      variable_type == SubSeq(stripped, m[3] + 1, Len(stripped))
                  IN  S(Concat(variable_name \o <<"_">> \o variable_type))

\* _method_name that does not strip the variable
MethodName_NoStrip(isNone, variable) ==
    IF isNone THEN None
    ELSE IF VariableMatch(variable) = {} THEN None
    ELSE LET m == CHOOSE m \in VariableMatch(variable) : TRUE
             variable_name == LowerSeq(ReplaceDots(SubSeq(variable, m[2] + 1, m[3] - 1)))
             variable_type == LowerSeq(SubSeq(variable, m[3] + 1, Len(variable)))
         IN  S(Concat(variable_name \o <<"_">> \o variable_type))

\* ValidationTemplates._method_name(variable); isNone says that variable is None
MethodName(isNone, variable) ==
    IF isNone THEN None
    ELSE LET stripped == Strip(variable)
         IN  IF VariableMatch(stripped) = {} THEN None
             ELSE LET m == CHOOSE m \in VariableMatch(stripped) : TRUE
                      variable_name ==
                          LowerSeq(ReplaceDots(SubSeq(stripped, m[2] + 1, m[3] - 1)))
                      variable_type == LowerSeq(SubSeq(stripped, m[3] + 1, Len(stripped)))
                  IN  S(Concat(variable_name \o <<"_">> \o variable_type))

(***************************************************************************)
(* The pure functions on their own: resolve_env_args and _method_name      *)
(* applied to one input                                                    *)
(***************************************************************************)
\* values given to resolve_env_args
EnvValues ==
    {"$env.API_KEY", "$envs.API_KEY", "$env.MISSING", "$envs.MISSING", "$env.API.KEY",
     "$env.", "x$env.API_KEY", "$ENV.API_KEY", "plain", ""}

\* environments of the process
EnvChoices ==
    {[x \in {} |-> ""],
     os_environ,
     [x \in {"API_KEY"} |-> ""],
     [x \in {"API_KEY"} |-> "$env.MISSING"],
     [x \in {"API_KEY", "API.KEY", "plain"} |-> IF x = "API_KEY" THEN "xyz" ELSE "dotted"]}

\* the pieces variable strings are put together from
NamespaceParts == {<<"A", "p", "p">>, <<"T", "r", "i", "g", "g", "e", "r">>, <<"A", "1">>, <<>>}
IdParts == {<<"9", "8", "7", "6">>, <<"1">>, <<"1", "x">>, <<>>}
NameParts ==
    {<<"h", "t", "t", "p", ".", "c", "o", "n", "t", "e", "n", "t">>,
     <<"h", "t", "t", "p", "_", "c", "o", "n", "t", "e", "n", "t">>,
     <<"A", ".", "b", "-", "C", "[", "0", "]">>,
     <<"a">>,
     <<"a", "_", "b">>,
     <<"a", ":", "b">>,
     <<"a", " ", "b">>,
     <<>>}
TypeParts ==
    {<<"B", "i", "n", "a", "r", "y">>,
     <<"S", "t", "r", "i", "n", "g">>,
     <<"S", "t", "r", "i", "n", "g", "A", "r", "r", "a", "y">>,
     <<"T", "C", "E", "n", "t", "i", "t", "y", "A", "r", "r", "a", "y">>,
     <<"S", "t", "r", "i", "n", "g", "y">>,
     <<"b", "i", "n", "a", "r", "y">>,
     <<"M", "y", "_", "T", "y", "p", "e", "-", "2">>,
     <<"c">>,
     <<"b", "_", "c">>,
     <<"M", "y", ".", "T", "y", "p", "e">>,
     <<"B", "i", "n", "a", "r", "y", "!", "S", "t", "r", "i", "n", "g">>,
     <<>>}
PrefixParts == {<<>>, <<" ">>, <<"\t", " ">>, <<"x">>}
SuffixParts == {<<>>, <<" ", "\n">>, <<" ", "x">>}

\* the variable string its pieces spell
VariableOf(p) ==
    p.prefix \o <<"#">> \o p.namespace \o <<":">> \o p.id \o <<":">> \o p.name \o <<"!">>
        \o p.type \o p.suffix

InitFn ==
    /\ pc = "new"
    /\ argv = <<>>
    /\ result_file = NoResultFile
    /\ default_args = EmptyDict
    /\ tcex_default_args = FALSE
    /\ unknown_args = <<>>
    /\ parsed = FALSE
    /\ parsed_resolved = FALSE
    /\ default_args_resolved = EmptyDict
    /\ registered = <<>>
    /\ trace = <<>>
    /\ error = ""
    /\ calls = 0
    /\ remote = NoResponse
    /\ inits = 1
    /\ broker = FALSE
    /\ coerce = NoCoerce
    /\ lastOp = BaseOp
    /\ \/ \E value \in EnvValues, environ \in EnvChoices :
            fn = [NoFn EXCEPT !.name = "resolve_env_args", !.value = value,
                              !.environ = environ]
       \/ \E prefix \in PrefixParts, namespace \in NamespaceParts, id \in IdParts,
             name \in NameParts, type \in TypeParts, suffix \in SuffixParts :
            LET p == [prefix |-> prefix, namespace |-> namespace, id |-> id, name |-> name,
                      type |-> type, suffix |-> suffix]
            IN  fn = [NoFn EXCEPT !.name = "method_name", !.parts = p,
                                  !.variable = VariableOf(p)]
       \/ fn = [NoFn EXCEPT !.name = "method_name", !.isNone = TRUE]

\* resolve_env_args(value)
ResolveEnvArgsCall ==
    /\ fn.stage = 0
    /\ fn.name = "resolve_env_args"
    /\ fn' = [fn EXCEPT !.stage = 1, !.out = S(ResolveEnvArgs(fn.environ, fn.value))]

\* _method_name(variable)
MethodNameCall ==
    /\ fn.stage = 0
    /\ fn.name = "method_name"
    /\ fn' = [fn EXCEPT !.stage = 1, !.out = MethodName(fn.isNone, fn.variable)]

\* the pieces of the second variable string given to _method_name
OtherParts ==
    [prefix : {<<>>}, namespace : {<<"T", "r", "i", "g", "g", "e", "r">>}, id : {<<"1">>},
     name : NameParts, type : TypeParts, suffix : {<<>>}]

\* _method_name(variable2) for a second variable, after a first one that matched
MethodNameOther ==
    /\ fn.stage = 1
    /\ fn.name = "method_name"
    /\ fn.out # None
    /\ \E p \in OtherParts :
          fn' = [fn EXCEPT !.stage = 2, !.parts2 = p, !.variable2 = VariableOf(p),
                           !.out2 = MethodName(FALSE, VariableOf(p))]

NextFn ==
    /\ UNCHANGED <<pc, argv, result_file, default_args, tcex_default_args, unknown_args,
                   parsed, parsed_resolved, default_args_resolved, registered, trace, error,
                   calls, remote, inits, broker, coerce, lastOp>>
    /\ \/ ResolveEnvArgsCall
       \/ MethodNameCall
       \/ MethodNameOther

SpecFn == InitFn /\ [][NextFn]_vars

(***************************************************************************)
(* Properties of the configuration store                                   *)
(***************************************************************************)
\* the values the command line gives for flag f: "--f=w", "--f" followed by w,
\* or a bare "--f" of a store_true flag
CliGiven(av, f) ==
    {S(w) : w \in {x \in ArgValues :
                     \/ ("--" \o f \o "=" \o x) \in Range(av)
                     \/ \E i \in 1..(Len(av) - 1) : av[i] = "--" \o f /\ av[i + 1] = x}}
    \cup (IF parser_actions[f].action = "store_true" /\ ("--" \o f) \in Range(av)
          THEN {B(TRUE)} ELSE {})

\* C1: in every state after the CLI parse, every key whose flag is on the command
\* line has the command-line value in the snapshot, whatever merges have run
C1_CliValuesInvariant ==
    (pc \notin {"new", "failed"}) =>
        \A f \in DOMAIN parser_actions : \A v \in CliGiven(argv, f) : default_args[f] = v

\* the command line has the single argument --owner=Acme, secure params were
\* loaded and the service returned {"owner": "Beta"}
OwnerScenario ==
    /\ "--owner=Acme" \in Range(argv)
    /\ "secure_merge" \in Range(trace)
    /\ remote.json = D([inputs |-> D([owner |-> S("Beta")])])

\* C2: with --owner=Acme on the command line and {"owner": "Beta"} from the
\* service, the first args() and the first resolved_args() after initialization
\* give owner = "Acme"
C2_OwnerStaysAcme ==
    (OwnerScenario /\ pc = "ready" /\ calls = 1 /\ error = "") =>
        /\ lastOp.name = "args" => default_args["owner"] = S("Acme")
        /\ lastOp.name = "resolved_args" =>
              /\ default_args["owner"] = S("Acme")
              /\ default_args_resolved["owner"] = S("Acme")

C2_Witness ==
    /\ OwnerScenario
    /\ pc = "ready"
    /\ calls = 1
    /\ lastOp.name = "resolved_args"
    /\ parsed_resolved
    /\ default_args_resolved["owner"] = S("Acme")

\* a step in which config(raw, preserve=True) ran on a dict: the AOT merge, the
\* secure params merge, or a call by the App
PreserveMergeStep ==
    /\ lastOp'.merged
    /\ lastOp'.preserve
    /\ lastOp'.name \in {"aot", "secure", "config"}
    /\ (pc' # pc \/ calls' # calls)

\* C3: config(raw, preserve=True) keeps every key of raw whose '--key' is in argv
\* at its old value (or absent), gives every other key of raw raw's value, and
\* leaves every other key of the snapshot unchanged
C3_PreserveMergeFrame ==
    [][PreserveMergeStep =>
         LET raw == lastOp'.arg.v
         IN  /\ \A x \in DOMAIN raw :
                  IF ("--" \o x) \in Range(argv)
                  THEN /\ (x \in DOMAIN default_args') = (x \in DOMAIN default_args)
                       /\ x \in DOMAIN default_args => default_args'[x] = default_args[x]
                  ELSE /\ x \in DOMAIN default_args'
                       /\ default_args'[x] = raw[x]
             /\ \A x \in (DOMAIN default_args) \ (DOMAIN raw) :
                  /\ x \in DOMAIN default_args'
                  /\ default_args'[x] = default_args[x]
             /\ DOMAIN default_args' \subseteq (DOMAIN default_args) \cup (DOMAIN raw)]_vars

C3_Witness ==
    /\ lastOp.name = "config"
    /\ lastOp.merged
    /\ lastOp.preserve
    /\ lastOp.arg = D([owner |-> S("Gamma"), tc_token |-> S("T2")])
    /\ "--owner" \in Range(argv)
    /\ default_args["owner"] = S("Acme")
    /\ default_args["tc_token"] = S("T2")

(***************************************************************************)
(* Properties of initialization                                            *)
(***************************************************************************)
\* the step of __init__ in which the request to the parameter service is made
SecureRequestStep ==
    /\ pc = "secure"
    /\ lastOp'.name = "secure"
    /\ lastOp'.ran

\* C4 as stated: after a failed fetch the caller has the error, the orchestrator is
\* unparsed and no collaborator can observe the partially merged snapshot
C4_NoPartialStateExposed ==
    (pc = "failed" /\ lastOp.name = "secure") =>
        /\ error # ""
        /\ ~parsed
        /\ ~tcex_default_args

\* C4 amended: a failing secure params step raises, leaves the orchestrator
\* unparsed and unresolved and merges nothing, while the snapshot merged so far
\* stays referenced by tcex._default_args
C4_FailedFetchKeepsPublishedSnapshot ==
    [][(pc = "secure" /\ pc' = "failed") =>
         /\ error' # ""
         /\ ~parsed'
         /\ ~parsed_resolved'
         /\ default_args_resolved' = EmptyDict
         /\ default_args' = default_args
         /\ registered' = registered
         /\ tcex_default_args']_vars

C4_Witness ==
    /\ pc = "failed"
    /\ lastOp.name = "secure"
    /\ ~remote.ok
    /\ tcex_default_args
    /\ "aot_merge" \in Range(trace)
    /\ default_args["owner"] = S("Beta")
    /\ ~parsed

\* C5: a response that is not ok, or whose body is not JSON, not a dict or has no
\* "inputs", ends initialization with the RuntimeError that carries the body
\* text (the reason when the body is empty), and nothing is merged
C5_BadResponseIsFatal ==
    [][(/\ SecureRequestStep
        /\ \/ ~remote'.ok
           \/ remote'.json.k # "dict"
           \/ "inputs" \notin DOMAIN remote'.json.v) =>
         /\ pc' = "failed"
         /\ error' = "Error retrieving secure params from API (" \o
                        (IF remote'.text # "" THEN remote'.text ELSE remote'.reason) \o ")."
         /\ default_args' = default_args
         /\ registered' = registered]_vars

C5_Witness ==
    /\ pc = "failed"
    /\ lastOp.name = "secure"
    /\ ~remote.ok
    /\ remote.text = ""
    /\ error = "Error retrieving secure params from API (Internal Server Error)."

\* C6 as stated: whenever the request is made, the registrar has already been called
C6_RegistrarBeforeRequest ==
    [][SecureRequestStep => registered # <<>>]_vars

\* C6 amended: whenever the request is made while tc_token is not None, the
\* registrar has already been called, last with that token and its expiry
C6_RegistrarBeforeRequestIfToken ==
    [][(SecureRequestStep /\ default_args["tc_token"] # None) =>
         /\ registered # <<>>
         /\ registered[Len(registered)] =
               <<"MainThread", default_args["tc_token"], default_args["tc_token_expires"]>>]_vars

C6_Witness ==
    /\ "secure_request" \in Range(trace)
    /\ lastOp.name = "secure"
    /\ registered # <<>>
    /\ registered[1] = <<"MainThread", S("T1"), S("E1")>>

IsPrefix(p, q) == Len(p) <= Len(q) /\ SubSeq(q, 1, Len(p)) = p

\* the step sequences the claimed order allows
InitOrders ==
    {<<"cli_parse", "results_file", "register_token">> \o a \o b :
        a \in {<<>>, <<"aot_pop", "aot_merge">>},
        b \in {<<>>, <<"secure_request", "secure_merge">>}}

\* C7: __init__ runs CLI parse, results file, token registration, AOT merge, secure
\* params merge in this order, and args()/resolved_args() run only after all of them
C7_InitOrder ==
    /\ \E o \in InitOrders : IsPrefix(trace, o)
    /\ (pc = "ready") => (trace \in InitOrders)
    /\ (lastOp.name \in {"args", "resolved_args"} \/ parsed \/ parsed_resolved \/ calls > 0)
          => (pc = "ready" /\ trace \in InitOrders)

C7_Witness ==
    /\ pc = "ready"
    /\ trace = <<"cli_parse", "results_file", "register_token", "aot_pop", "aot_merge",
                 "secure_request", "secure_merge">>
    /\ lastOp.name = "args"
    /\ parsed

\* the loader steps among a sequence of steps
LoaderSteps(steps) ==
    SelectSeq(steps, LAMBDA x : x \in {"cli_parse", "results_file", "aot_pop", "secure_request"})

\* C8 as stated: a forced re-parse runs the loader steps that __init__ ran
C8_ReparseRepeatsInit ==
    (lastOp.name = "args" /\ lastOp.parse /\ lastOp.ran) =>
        LoaderSteps(lastOp.steps) = LoaderSteps(trace)

\* C8 amended: args(parse=True) re-applies the command line to the snapshot and
\* registers the token; it reads no results file, pops no AOT params and makes no
\* request to the parameter service
C8_ReparseOnlyCli ==
    [][(calls' = calls + 1 /\ lastOp'.name = "args" /\ lastOp'.parse) =>
         /\ lastOp'.ran
         /\ \A x \in DOMAIN default_args :
              /\ x \in DOMAIN default_args'
              /\ x # "service_id" =>
                   default_args'[x] =
                      IF x \in DOMAIN parser_actions /\ CliGiven(argv, x) # {}
                      THEN CHOOSE v \in CliGiven(argv, x) : TRUE
                      ELSE default_args[x]
         /\ DOMAIN default_args' \subseteq (DOMAIN default_args) \cup {"service_id"}
         /\ registered' =
               IF default_args'["tc_token"] # None
               THEN Append(registered, <<"MainThread", default_args'["tc_token"],
                                         default_args'["tc_token_expires"]>>)
               ELSE registered
         /\ UNCHANGED <<result_file, trace, remote>>]_vars

C8_Witness ==
    /\ lastOp.name = "args"
    /\ lastOp.parse
    /\ lastOp.ran
    /\ calls = 2
    /\ parsed
    /\ "secure_request" \in Range(trace)
    /\ registered # <<>>

(***************************************************************************)
(* Properties of coercion                                                  *)
(***************************************************************************)
\* C9: coercing the result of a coercion again raises nothing and returns it unchanged
C9_CoercionIdempotent ==
    (coerce.stage = 2) =>
        /\ ~IsErr(coerce.twice)
        /\ coerce.twice = coerce.once

\* a spec of type MultiChoice in any letter case, or with allowMultiple true
IsMultiSpec(spec) ==
    \/ /\ "type" \in DOMAIN spec
       /\ spec["type"].v \in {"MultiChoice", "MULTICHOICE", "multichoice"}
    \/ /\ "allowMultiple" \in DOMAIN spec
       /\ spec["allowMultiple"] = B(TRUE)

\* C10: for a MultiChoice or allowMultiple key a string is split on the list
\* delimiter into its delimiter-free pieces ("a,b,c" gives ["a", "b", "c"]), also
\* when the spec type is Boolean or the key is a reserved boolean key
C10_MultiChoiceSplit ==
    (coerce.stage >= 1 /\ IsMultiSpec(coerce.spec) /\ IsStr(coerce.value)) =>
        /\ coerce.once.k = "list"
        /\ Join(coerce.once.v, ",") = coerce.value.v
        /\ \A i \in 1..Len(coerce.once.v) : coerce.once.v[i] \in Atoms
        /\ coerce.value = S("a,b,c") => coerce.once = L(<<"a", "b", "c">>)

C10_Witness ==
    /\ coerce.stage >= 1
    /\ coerce.key = "tc_verify"
    /\ coerce.spec = [type |-> S("Boolean"), allowMultiple |-> B(TRUE)]
    /\ coerce.value = S("a,b,c")
    /\ coerce.once = L(<<"a", "b", "c">>)

\* the spec type of a key is Boolean, in any letter case
IsBooleanSpec(spec) ==
    "type" \in DOMAIN spec /\ spec["type"].v \in {"Boolean", "BOOLEAN", "boolean"}

\* "true" in its letter cases
TrueStrings == {"true", "True", "TRUE"}

ResolvedArgsStep == calls' = calls + 1 /\ lastOp'.name = "resolved_args"

\* a call of resolved_args() that ran the resolution loop
ResolveStep == ResolvedArgsStep /\ "resolve" \in Range(lastOp'.steps)

\* what the resolution of a raw snapshot holds for key x
ResolvedValue(raw, x) ==
    IF x \notin tc_reserved_args /\ IsStr(raw[x]) THEN PlaybookRead(raw[x].v) ELSE raw[x]

\* C12: the resolved snapshot is empty until the first resolved_args(), which
\* computes it from the raw snapshot; a later resolved_args() without force returns
\* the same snapshot and reads nothing from the broker, whatever merges changed the
\* raw snapshot meanwhile; no other method changes it; resolved_args(parse=True)
\* recomputes it from the current raw snapshot
C12_ResolvedSnapshotCached ==
    [][/\ (pc = "ready" /\ ~parsed_resolved) => default_args_resolved = EmptyDict
       /\ ResolvedArgsStep =>
             IF parsed_resolved /\ ~lastOp'.parse
             THEN /\ default_args_resolved' = default_args_resolved
                  /\ default_args' = default_args
                  /\ lastOp'.reads = NoReads
                  /\ parsed_resolved'
             ELSE error' = "" =>
                  /\ parsed_resolved'
                  /\ default_args_resolved' =
                        [x \in DOMAIN default_args' |-> ResolvedValue(default_args', x)]
       /\ (calls' = calls + 1 /\ lastOp'.name # "resolved_args") =>
             /\ default_args_resolved' = default_args_resolved
             /\ parsed_resolved' = parsed_resolved
      ]_vars

C12_Witness ==
    /\ lastOp.name = "resolved_args"
    /\ ~lastOp.parse
    /\ ~lastOp.ran
    /\ parsed_resolved
    /\ default_args["owner"] = S("Gamma")
    /\ default_args_resolved["owner"] = None

\* C13: the keys of the resolved snapshot are always keys of the raw snapshot, and
\* a resolution produces exactly the keys the raw snapshot has at that moment
C13_ResolvedKeysWithinRaw ==
    [][/\ DOMAIN default_args_resolved \subseteq DOMAIN default_args
       /\ DOMAIN default_args_resolved' \subseteq DOMAIN default_args'
       /\ ResolveStep => DOMAIN default_args_resolved' = DOMAIN default_args'
      ]_vars

C13_Witness ==
    /\ parsed_resolved
    /\ lastOp.name = "config"
    /\ "debug_mode" \in DOMAIN default_args
    /\ "debug_mode" \notin DOMAIN default_args_resolved
    /\ "owner" \in DOMAIN default_args_resolved

\* v is "$env.KEY" for an environment variable KEY that is set
IsSetEnvRef(v) == \E key \in DOMAIN os_environ : v = "$env." \o key

\* the name in an environment reference
EnvRefKey(v) == CHOOSE key \in DOMAIN os_environ : v = "$env." \o key

\* resolved_args() has just resolved the raw snapshot the state holds
JustResolved ==
    /\ lastOp.name = "resolved_args"
    /\ "resolve" \in Range(lastOp.steps)
    /\ error = ""

\* C14 as stated: a raw value "$env.KEY" under a non-reserved key, KEY set, is
\* resolved to the broker read of the value of the environment variable
C14_EnvThenBroker ==
    JustResolved =>
        \A x \in DOMAIN default_args \ tc_reserved_args :
            (IsStr(default_args[x]) /\ IsSetEnvRef(default_args[x].v)) =>
                default_args_resolved[x] = PlaybookRead(os_environ[EnvRefKey(default_args[x].v)])

\* C14: resolved_args() applies the broker read alone: a raw value "$env.KEY" under
\* a non-reserved key, KEY set, is resolved to the broker read of the literal
\* string "$env.KEY"; the environment is not consulted
C14_BrokerOnly ==
    JustResolved =>
        \A x \in DOMAIN default_args \ tc_reserved_args :
            (IsStr(default_args[x]) /\ IsSetEnvRef(default_args[x].v)) =>
                /\ default_args_resolved[x] = PlaybookRead(default_args[x].v)
                /\ default_args_resolved[x] # S(os_environ[EnvRefKey(default_args[x].v)])

C14_Witness ==
    /\ JustResolved
    /\ default_args["owner"] = S("$env.API_KEY")
    /\ default_args_resolved["owner"] = S("$env.API_KEY")

\* C15: a resolution calls the broker read exactly once for each non-reserved key
\* whose raw value is a string and for no other key; the values of reserved keys
\* and the values that are not strings are in the resolved snapshot as they are in
\* the raw one
C15_BrokerReadsConfined ==
    [][ResolveStep =>
          /\ DOMAIN lastOp'.reads = DOMAIN default_args'
          /\ \A x \in DOMAIN default_args' :
                IF x \notin tc_reserved_args /\ IsStr(default_args'[x])
                THEN lastOp'.reads[x] = 1
                ELSE /\ lastOp'.reads[x] = 0
                     /\ default_args_resolved'[x] = default_args'[x]
      ]_vars

C15_Witness ==
    /\ JustResolved
    /\ {"tc_log_file", "tags"} \subseteq DOMAIN default_args
    /\ default_args["tc_log_file"] = S("#App:1:owner!String")
    /\ default_args_resolved["tc_log_file"] = S("#App:1:owner!String")
    /\ lastOp.reads["tc_log_file"] = 0
    /\ default_args["tags"] = S("#App:1:owner!String")
    /\ default_args_resolved["tags"] = S("Delta")
    /\ lastOp.reads["tags"] = 1

(***************************************************************************)
(* Properties of resolve_env_args                                          *)
(***************************************************************************)
\* C16: resolve_env_args(v) of a string v is a string: for v = "$env.KEY" or
\* v = "$envs.KEY" it is the value of the environment variable KEY when KEY is
\* set and v itself when KEY is unset; for a v of neither form it is v itself
C16_ResolveEnvArgs ==
    (fn.stage = 1 /\ fn.name = "resolve_env_args") =>
        /\ fn.out.k = "str"
        /\ \A key \in EnvKeys :
              fn.value \in {"$env." \o key, "$envs." \o key} =>
                  fn.out.v = IF key \in DOMAIN fn.environ THEN fn.environ[key] ELSE fn.value
        /\ (\A key \in EnvKeys : fn.value \notin {"$env." \o key, "$envs." \o key}) =>
              fn.out.v = fn.value

C16_Witness ==
    /\ fn.stage = 1
    /\ fn.name = "resolve_env_args"
    /\ fn.value = "$envs.API_KEY"
    /\ fn.environ = os_environ
    /\ fn.out = S("xyz")

(***************************************************************************)
(* Properties of the token registrar, the config file and the results file *)
(***************************************************************************)
\* config() has just merged a map: in a loader of __init__, in a call by the App,
\* or in args() merging the parsed namespace into itself
ConfigMergeStep ==
    /\ (calls' = calls + 1 \/ pc' # pc)
    /\ \/ lastOp'.merged
       \/ /\ lastOp'.name \in {"args", "resolved_args"}
          /\ "self_merge" \in Range(lastOp'.steps)
          /\ error' # "SystemExit"

\* the last call the registrar received carries the token of the snapshot
LastRegisteredIsCurrent ==
    ("register_token" \in Range(trace) /\ default_args["tc_token"] # None) =>
        /\ registered # <<>>
        /\ registered[Len(registered)][2] = default_args["tc_token"]

\* C17: a merge by config() on a map calls the registrar once, with ('MainThread',
\* tc_token, tc_token_expires) of the snapshot after the merge, when that tc_token
\* is not None, and does not call it when it is None; once __init__ has registered
\* the token, the last registered token is the snapshot's token whenever that
\* token is not None
C17_RegistrarFollowsMerge ==
    [][/\ ConfigMergeStep =>
             registered' =
                 IF default_args'["tc_token"] # None
                 THEN Append(registered, <<"MainThread", default_args'["tc_token"],
                                           default_args'["tc_token_expires"]>>)
                 ELSE registered
       /\ LastRegisteredIsCurrent
       /\ LastRegisteredIsCurrent'
      ]_vars

C17_Witness ==
    /\ lastOp.name = "config"
    /\ lastOp.merged
    /\ default_args["tc_token"] = S("T2")
    /\ Len(registered) >= 2
    /\ registered[1] = <<"MainThread", S("T1"), S("E1")>>
    /\ registered[Len(registered)] = <<"MainThread", S("T2"), S("E1")>>

\* C18: the config file never makes __init__ fail: config_file returns a map for
\* a missing file and for a malformed one, and a construction fails only on the
\* command line
C18_ConfigFileNeverAborts ==
    lastOp.name = "construct" =>
        /\ ~IsErr(lastOp.arg)
        /\ pc = "failed" => error = "SystemExit"

\* the step of __init__ that looks for results.tc
ResultsStep == pc = "results" /\ pc' # pc

\* C19: a construction that finds results.tc sets the key = value lines of the
\* file in the snapshot and removes the file; a removed or absent file stays
\* absent, so a later construction changes nothing in its results step, and args()
\* never reads the file
C19_ResultsFileConsumedOnce ==
    [][/\ (ResultsStep /\ result_file.exists) =>
             /\ ~result_file'.exists
             /\ \A key \in ResultKeys, w \in ResultWords :
                   (key \o " = " \o w) \in Range(result_file.lines) =>
                       default_args'[key] = ResultValue(w)
       /\ (ResultsStep /\ ~result_file.exists) => default_args' = default_args
       /\ ~result_file.exists => ~result_file'.exists
       /\ calls' = calls + 1 =>
             /\ result_file' = result_file
             /\ "results_file" \notin Range(lastOp'.steps)
      ]_vars

C19_Witness ==
    /\ inits = 2
    /\ lastOp.name = "results"
    /\ ~lastOp.ran
    /\ ~result_file.exists
    /\ result_file.lines = <<"owner = Beta", "garbage">>
    /\ default_args["owner"] # S("Beta")

(***************************************************************************)
(* Properties of _method_name                                              *)
(***************************************************************************)
\* the pieces that follow the grammar, and the white space strip() removes
ValidNamespaces == {<<"A", "p", "p">>, <<"T", "r", "i", "g", "g", "e", "r">>}
ValidIds == {<<"9", "8", "7", "6">>, <<"1">>}
ValidNames ==
    {<<"h", "t", "t", "p", ".", "c", "o", "n", "t", "e", "n", "t">>,
     <<"h", "t", "t", "p", "_", "c", "o", "n", "t", "e", "n", "t">>,
     <<"A", ".", "b", "-", "C", "[", "0", "]">>,
     <<"a">>,
     <<"a", "_", "b">>}
ValidTypes ==
    {<<"B", "i", "n", "a", "r", "y">>,
     <<"S", "t", "r", "i", "n", "g">>,
     <<"S", "t", "r", "i", "n", "g", "A", "r", "r", "a", "y">>,
     <<"T", "C", "E", "n", "t", "i", "t", "y", "A", "r", "r", "a", "y">>,
     <<"b", "i", "n", "a", "r", "y">>,
     <<"M", "y", "_", "T", "y", "p", "e", "-", "2">>,
     <<"c">>,
     <<"b", "_", "c">>}
BlankParts == {<<>>, <<" ">>, <<"\t", " ">>, <<" ", "\n">>}

\* the string of the pieces p, trimmed, is '#<namespace>:<numeric id>:<name>!<type>'
FollowsGrammar(p) ==
    /\ p.prefix \in BlankParts
    /\ p.suffix \in BlankParts
    /\ p.namespace \in ValidNamespaces
    /\ p.id \in ValidIds
    /\ p.name \in ValidNames
    /\ p.type \in ValidTypes

\* C20: _method_name of a string that, trimmed, follows the variable grammar is
\* lower-case(name with '.' replaced by '_') + '_' + lower-case(type); it is None
\* for None and for a string that does not follow the grammar
C20_MethodName ==
    (fn.stage = 1 /\ fn.name = "method_name") =>
        IF ~fn.isNone /\ FollowsGrammar(fn.parts)
        THEN fn.out = S(Concat(LowerSeq(ReplaceDots(fn.parts.name)) \o <<"_">>
                               \o LowerSeq(fn.parts.type)))
        ELSE fn.out = None

C20_Witness ==
    /\ fn.stage = 1
    /\ fn.name = "method_name"
    /\ fn.variable = <<" ", "#", "A", "p", "p", ":", "9", "8", "7", "6", ":",
                       "h", "t", "t", "p", ".", "c", "o", "n", "t", "e", "n", "t", "!",
                       "B", "i", "n", "a", "r", "y", " ", "\n">>
    /\ fn.out = S("http_content_binary")

(***************************************************************************)
(* Two calls of _method_name                                               *)
(***************************************************************************)
\* what _method_name keeps of an accepted variable: the name with '.' replaced
\* by '_' and the type, both in lower case, joined by '_'
MethodKey(p) == LowerSeq(ReplaceDots(p.name)) \o <<"_">> \o LowerSeq(p.type)

\* both calls were made and both strings follow the grammar
BothAccepted ==
    /\ fn.stage = 2
    /\ fn.name = "method_name"
    /\ FollowsGrammar(fn.parts)
    /\ FollowsGrammar(fn.parts2)

\* C21 as stated: two accepted variable strings that differ in their dotted name
\* or in their type have different method names
C21_CollisionResistant ==
    (BothAccepted /\ (fn.parts.name # fn.parts2.name \/ fn.parts.type # fn.parts2.type))
        => fn.out # fn.out2

\* C21: two accepted variable strings have the same method name exactly when
\* they agree on lower-case(name with '.' replaced by '_') + '_' + lower-case(type),
\* whatever their namespace and id: names or types that differ only in case, or
\* in '.' against '_', or in where the joining '_' falls, share a method name
C21_SameNameIffSameKey ==
    BothAccepted =>
        /\ fn.out # None
        /\ fn.out2 # None
        /\ (fn.out = fn.out2) <=> (MethodKey(fn.parts) = MethodKey(fn.parts2))

C21_Witness ==
    /\ BothAccepted
    /\ fn.parts.namespace = <<"A", "p", "p">>
    /\ fn.parts.name = <<"h", "t", "t", "p", ".", "c", "o", "n", "t", "e", "n", "t">>
    /\ fn.parts.type = <<"B", "i", "n", "a", "r", "y">>
    /\ fn.parts2.namespace = <<"T", "r", "i", "g", "g", "e", "r">>
    /\ fn.parts2.name = <<"h", "t", "t", "p", "_", "c", "o", "n", "t", "e", "n", "t">>
    /\ fn.parts2.type = <<"b", "i", "n", "a", "r", "y">>
    /\ fn.out = S("http_content_binary")
    /\ fn.out2 = S("http_content_binary")

(***************************************************************************)
(* The conditional loaders                                                 *)
(***************************************************************************)
\* how many times step s is recorded in the trace t of one initialization
Count(s, t) == Cardinality({i \in 1..Len(t) : t[i] = s})

\* the step of __init__ at position p is taken
InitStep(p) == pc = p /\ pc' # p

\* C22: within one initialization the blocking pop happens at most once, and only
\* when tc_aot_enabled is truthy in the snapshot as the loader step finds it; the
\* remote request happens at most once, and only when tc_secure_params is truthy
\* in the snapshot as its step finds it; after a failure neither call is made again
C22_LoadersAtMostOnce ==
    [][/\ Count("aot_pop", trace') <= 1
       /\ Count("secure_request", trace') <= 1
       /\ InitStep("aot") =>
             /\ "aot_pop" \notin Range(trace)
             /\ ("aot_pop" \in Range(trace')) <=> Truthy(default_args["tc_aot_enabled"])
       /\ InitStep("secure") =>
             /\ "secure_request" \notin Range(trace)
             /\ ("secure_request" \in Range(trace'))
                    <=> Truthy(default_args["tc_secure_params"])
       /\ (~InitStep("aot") /\ inits' = inits) =>
             Count("aot_pop", trace') = Count("aot_pop", trace)
       /\ (~InitStep("secure") /\ inits' = inits) =>
             Count("secure_request", trace') = Count("secure_request", trace)
       /\ (pc = "failed" /\ inits' = inits) => (pc' = "failed" /\ trace' = trace)
      ]_vars

C22_Witness ==
    /\ pc = "failed"
    /\ lastOp.name = "secure"
    /\ Count("aot_pop", trace) = 1
    /\ Count("secure_request", trace) = 1
    /\ "secure_merge" \notin Range(trace)

(***************************************************************************)
(* Forced re-resolution                                                    *)
(***************************************************************************)
\* the string s is written as a playbook variable or as an environment reference
HasIndirection(s) == s \in DOMAIN kv_store \/ EnvKeyOf(s) # {}

\* the last operation was resolved_args(parse=True) and it ran the resolution
ForcedResolveDone ==
    lastOp.name = "resolved_args" /\ lastOp.parse /\ "resolve" \in Range(lastOp.steps)

AtBlockingPop == pc = "aot" /\ Truthy(default_args["tc_aot_enabled"])

ArgsStep == calls' = calls + 1 /\ lastOp'.name = "args"
PlainArgsStep == ArgsStep /\ ~lastOp'.parse

\* the value of --tc_svc_client_topic does not have three parts
TopicMalformed(ns) ==
    /\ IsStr(ns["tc_svc_client_topic"])
    /\ Len(Split(TopicAtoms, ns["tc_svc_client_topic"].v, "-")) < 3

SecureFlagNotOnCli == "--tc_secure_params" \notin Range(argv)

\* the queue payloads whose coercion is what the queue loader just merged
PoppedPayloads ==
    IF lastOp.name = "aot" /\ lastOp.merged
    THEN {p \in AotPayloads : UpdateParams(ij_params_dict, p.v) = lastOp.arg
                              /\ "tc_secure_params" \in DOMAIN p.v}
    ELSE {}

\* this initialization consumed a results file that sets tc_secure_params to true
ResultsSetSecure ==
    /\ inits = 1
    /\ ~result_file.exists
    /\ "tc_secure_params = true" \in Range(result_file.lines)

\* the remote request is made by the step being taken
RequestMade == "secure_request" \in Range(trace') /\ "secure_request" \notin Range(trace)

\* C26: each conditional loader reads its flag from the snapshot as its step finds
\* it. With no --tc_secure_params on the command line, a queue payload carrying
\* tc_secure_params "true" makes the same initialization issue the request, and
\* one carrying "false" (coerced to the boolean) makes it skip the request; a
\* results file that sets it to true makes it issue the request unless a queue
\* payload sets it again
C26_FlagsReadAtTheirStep ==
    [][/\ InitStep("aot") =>
             (("aot_pop" \in Range(trace')) <=> Truthy(default_args["tc_aot_enabled"]))
       /\ InitStep("secure") =>
             /\ RequestMade <=> Truthy(default_args["tc_secure_params"])
             /\ SecureFlagNotOnCli =>
                   \A p \in PoppedPayloads :
                       /\ p.v["tc_secure_params"] = S("true") => RequestMade
                       /\ p.v["tc_secure_params"] = S("false") => ~RequestMade
             /\ (ResultsSetSecure /\ PoppedPayloads = {}) => RequestMade
       /\ (ResultsStep /\ result_file.exists
             /\ "tc_secure_params = true" \in Range(result_file.lines)) =>
             default_args'["tc_secure_params"] = B(TRUE)
      ]_vars

\* the queue payload with tc_secure_params "true" was merged and the request made
C26_Witness ==
    /\ lastOp.name = "secure"
    /\ lastOp.ran
    /\ SecureFlagNotOnCli
    /\ "--tc_aot_enabled" \in Range(argv)
    /\ inits = 1
    /\ result_file = NoResultFile
    /\ default_args["tags"] = L(<<"a", "b", "c">>)
    /\ default_args["tc_secure_params"] = B(TRUE)
    /\ trace = <<"cli_parse", "results_file", "register_token", "aot_pop", "aot_merge",
                 "secure_request", "secure_merge">>

(***************************************************************************)
(* What a forced call leaves alone                                         *)
(***************************************************************************)
\* C27: args(parse=True) leaves the cached resolved snapshot and its flag as they
\* are; resolved_args(parse=True), once args have been parsed, computes the
\* resolved snapshot again from the raw snapshot as it is, without parsing the
\* command line, merging or registering a token
C27_ForcedCallsFrame ==
    [][/\ (ArgsStep /\ lastOp'.parse) =>
             /\ lastOp'.ran
             /\ UNCHANGED <<default_args_resolved, parsed_resolved>>
       /\ (ResolvedArgsStep /\ lastOp'.parse /\ parsed) =>
             /\ lastOp'.steps = <<"resolve">>
             /\ lastOp'.warnings = 0
             /\ UNCHANGED <<default_args, registered, unknown_args, parsed>>
             /\ parsed_resolved'
             /\ default_args_resolved' =
                   [x \in DOMAIN default_args |-> ResolvedValue(default_args, x)]
      ]_vars

\* resolved_args(); config({owner: Gamma, ...}); args(parse=True): the raw snapshot
\* has been parsed again and the resolved snapshot still holds the old owner
C27_Witness ==
    /\ lastOp.name = "args"
    /\ lastOp.parse
    /\ lastOp.ran
    /\ parsed
    /\ parsed_resolved
    /\ default_args["owner"] = S("Gamma")
    /\ default_args_resolved["owner"] # default_args["owner"]

(***************************************************************************)
(* What config() does to its argument                                      *)
(***************************************************************************)
\* a call of config() by the App
ConfigStep == calls' = calls + 1 /\ lastOp'.name = "config"

\* the keys k of the map m with the literal '--k' among the process arguments
KeysOnCli(m) == {k \in DOMAIN m : ("--" \o k) \in Range(argv)}

\* C28: config(raw, preserve=True) removes from the caller's map itself every key
\* whose '--key' is among the process arguments and leaves its other entries;
\* config(raw, preserve=False) leaves the caller's map as it was; config() of
\* something that is not a map changes neither the snapshot nor the argument and
\* does not call the registrar
C28_ConfigArgumentFrame ==
    [][ConfigStep =>
          IF IsDict(lastOp'.arg)
          THEN IF lastOp'.preserve
               THEN lastOp'.data = D(DictRemove(lastOp'.arg.v, KeysOnCli(lastOp'.arg.v)))
               ELSE lastOp'.data = lastOp'.arg
          ELSE /\ lastOp'.data = lastOp'.arg
               /\ UNCHANGED <<default_args, registered, default_args_resolved>>
      ]_vars

\* config({owner: Gamma, tc_token: T2}) with '--owner' on the command line: the
\* caller's map has lost its owner
C28_Witness ==
    /\ lastOp.name = "config"
    /\ lastOp.preserve
    /\ "--owner" \in Range(argv)
    /\ lastOp.arg = D([owner |-> S("Gamma"), tc_token |-> S("T2")])
    /\ lastOp.data = D([tc_token |-> S("T2")])
    /\ default_args["owner"] = S("Acme")

====
